---- MODULE Spec2Model ----
(***************************************************************************)
(* Grid path search: terrain catalog (terrain.py), nodes (node.py), the    *)
(* Graph with its neighbour and edge-cost queries and the two searches of  *)
(* PathFinder, dijkstra and a_star (graph.py).                             *)
(*                                                                         *)
(* Costs are Python floats in the source.  Here a cost is an integer in    *)
(* units of 1/CostUnit (1e-5): a terrain multiplier m is the integer       *)
(* 10 * m (7, 10, 13, 17, 25), math.sqrt is the integer square root at     *)
(* four decimals, float('inf') is Inf with Inf + x = Inf.                  *)
(***************************************************************************)
EXTENDS Integers, Sequences, FiniteSets, TLC

\* ------------------------------------------------------------------ bounds
\* Graph(width, height): the dimensions of the grid under check.
Width == 2
Height == 4
\* Number of set_terrain calls made after the map has been built.
MaxSetTerrain == 1
\* Number of searches made one after the other on a map.
MaxSearches == 2

\* ------------------------------------------------------- numeric encoding
\* float('inf') (node.py:17, terrain.py:18)
Inf == 2000000000
\* math.sqrt works at four decimals: Sqrt(n) = floor(sqrt(n) * SqrtScale)
SqrtScale == 10000
\* one unit of terrain multiplier (tenths) times SqrtScale: cost 1.0
CostUnit == 100000

\* float addition with infinity
Add(a, b) == IF a = Inf \/ b = Inf THEN Inf ELSE a + b

RECURSIVE Bisect(_, _, _)
\* largest r in lo..hi-1 with r * r <= n  (lo * lo <= n < hi * hi)
Bisect(n, lo, hi) ==
    IF hi - lo <= 1 THEN lo
    ELSE LET mid == (lo + hi) \div 2
         IN  IF mid * mid <= n THEN Bisect(n, mid, hi) ELSE Bisect(n, lo, mid)

\* math.sqrt(n) for a small natural n, in units of 1/SqrtScale
Sqrt(n) == Bisect(n * SqrtScale * SqrtScale, 0, 46341)

\* math.sqrt(2), the factor of a diagonal move (graph.py:124)
Sqrt2 == Sqrt(2)

\* ------------------------------------------------------------------ cells
Cells == (0 .. Width - 1) \X (0 .. Height - 1)
NoNode == <<-1, -1>>
InBounds(x, y) == 0 <= x /\ x < Width /\ 0 <= y /\ y < Height
Abs(i) == IF i < 0 THEN -i ELSE i

\* a local name of the source: the value v is worked out once, when it is
\* assigned, and F is given the value (an operator argument is worked out again
\* at each of its uses)
Bind(v, F(_)) == CHOOSE r \in {F(x) : x \in {v}} : TRUE

\* ---------------------------------------------------------------- terrain
\* the name looked up as it is spelled
LowerNot(name) == name

\* A terrain name is a string; str.lower() is modelled on the names in use.
Lower(name) ==
    CASE name = "WATER" -> "water"
      [] name = "Water" -> "water"
      [] name = "Road"  -> "road"
      [] OTHER          -> name

\* Terrain._terrain_types: name -> <<cost in tenths, walkable>>
TerrainTable ==
    [normal   |-> [cost |-> 10,  walkable |-> TRUE],
     grass    |-> [cost |-> 13,  walkable |-> TRUE],
     sand     |-> [cost |-> 17,  walkable |-> TRUE],
     water    |-> [cost |-> Inf, walkable |-> FALSE],
     mountain |-> [cost |-> 25,  walkable |-> TRUE],
     road     |-> [cost |-> 7,   walkable |-> TRUE]]

\* Terrain.get_terrain: case-insensitive lookup, NORMAL when not found
GetTerrain(name) ==
    IF Lower(name) \in DOMAIN TerrainTable
    THEN TerrainTable[Lower(name)]
    ELSE TerrainTable["normal"]

\* Terrain.get_terrain_cost (in tenths, or Inf)
TerrainCost(name) == GetTerrain(name).cost

\* is_walkable answering True for every name
IsWalkableAlways(name) == TRUE

\* Terrain.is_walkable
IsWalkable(name) == GetTerrain(name).walkable

\* names passed to set_terrain: catalog names, another spelling, an unknown name
TerrainNames == {"normal", "sand", "water", "mountain", "road", "Water", "lava"}

VARIABLES
    terrain_type,   \* Node.terrain_type of every cell
    walkable,       \* Node.walkable
    g_cost,         \* Node.g_cost
    h_cost,         \* Node.h_cost
    parent,         \* Node.parent (NoNode for None)
    ids,            \* id(node): the address of each Node object, fixed for its life
    pc,             \* "idle" (no search made yet), "run" (inside the while loop), "done"
    algo,           \* "dijkstra" or "a_star": the search that runs or ran last
    start,          \* arguments of the search
    end,
    avoid_water,
    open_set,       \* the heap: a set of entries [key, id, node]
    open_set_dict,  \* keys of open_set_dict, as the nodes they stand for
    closed_set,
    path,           \* returned path (a sequence of cells)
    visited,        \* returned closed set
    calls,          \* number of set_terrain calls made so far
    runs            \* number of searches started so far

vars == <<terrain_type, walkable, g_cost, h_cost, parent, ids, pc, algo, start, end,
          avoid_water, open_set, open_set_dict, closed_set, path, visited, calls, runs>>

nodeVars == <<terrain_type, walkable>>
stateVars == <<g_cost, h_cost, parent, open_set, open_set_dict, closed_set, pc, path, visited>>
argVars == <<algo, start, end, avoid_water>>

\* ------------------------------------------------------------------ Graph
\* the directions with a step of two cells in place of the first
DirectionsLeap ==
    << <<0, 2>>, <<1, 0>>, <<0, -1>>, <<-1, 0>>,
       <<1, 1>>, <<1, -1>>, <<-1, -1>>, <<-1, 1>> >>

\* the 8 directions of get_neighbors, in the order of the source
Directions ==
    << <<0, 1>>, <<1, 0>>, <<0, -1>>, <<-1, 0>>,
       <<1, 1>>, <<1, -1>>, <<-1, -1>>, <<-1, 1>> >>

\* the candidate of direction i around node, or NoNode when out of the map
Candidate(node, i) ==
    LET nx == node[1] + Directions[i][1]
        ny == node[2] + Directions[i][2]
    IN  IF InBounds(nx, ny) THEN <<nx, ny>> ELSE NoNode

\* the loop of get_neighbors: the candidates in the order of Directions, those
\* out of the map and those not walkable dropped, and of the rest the ones whose
\* terrain is (water = TRUE) or is not (water = FALSE) spelled 'water'
Collect(tt, wk, node, water) ==
    SelectSeq([i \in 1 .. Len(Directions) |-> Candidate(node, i)],
              LAMBDA c : c # NoNode /\ wk[c] /\ ((tt[c] = "water") = water))

\* Graph.get_neighbors on a grid with terrain names tt and walkable flags wk
GetNeighborsOf(tt, wk, node, avoid) ==
    LET neighbors == Collect(tt, wk, node, FALSE)
        water_neighbors == Collect(tt, wk, node, TRUE)
    IN  IF avoid /\ neighbors # << >> THEN neighbors
        ELSE neighbors \o water_neighbors

GetNeighbors(node, avoid) == GetNeighborsOf(terrain_type, walkable, node, avoid)

\* Graph.get_terrain_cost on a grid with terrain names tt
EdgeCost(tt, from, to) ==
    LET terrain_cost == TerrainCost(tt[to])
        dx == Abs(from[1] - to[1])
        dy == Abs(from[2] - to[2])
        distance == IF dx > 0 /\ dy > 0 THEN Sqrt2 ELSE SqrtScale
    IN  IF terrain_cost = Inf THEN Inf ELSE terrain_cost * distance

GetTerrainCost(from, to) == EdgeCost(terrain_type, from, to)

\* math.sqrt on the squared distances of the grid, worked out once
SqrtOf ==
    [n \in 0 .. (Width - 1) * (Width - 1) + (Height - 1) * (Height - 1) |-> Sqrt(n)]
        @@ << >>

\* PathFinder.heuristic, in cost units
Heuristic(node, end_node) ==
    LET dx == Abs(node[1] - end_node[1])
        dy == Abs(node[2] - end_node[2])
    IN  (CostUnit \div SqrtScale) * SqrtOf[dx * dx + dy * dy]

\* Node.f_cost
FCost(g, h) == Add(g, h)

\* ------------------------------------------------------------- PathFinder
\* the heap entry (priority, id(node), node) that heapq orders as a tuple
Entry(key, node) == [key |-> key, id |-> ids[node], node |-> node]

\* tuple order of two heap entries: by key, then by id
EntryLess(a, b) == a.key < b.key \/ (a.key = b.key /\ a.id < b.id)

\* heapq.heappop: the least entry of the heap
HeapMin(heap) == CHOOSE a \in heap : \A b \in heap \ {a} : EntryLess(a, b)

\* the test before heappush turned round
MustPushSeen(dict, n) == n \in dict

\* the test before heappush: the neighbor is not yet a key of open_set_dict
\* (open_set_dict[id(n)] is n itself once set, so its second disjunct is never true)
MustPush(dict, n) == n \notin dict

RECURSIVE Walk(_, _, _)
\* the while loop of reconstruct_path: current, then its ancestors; fuel stops
\* the model on a parent cycle, where the source would not stop
Walk(par, current, fuel) ==
    IF current = NoNode \/ fuel = 0 THEN << >>
    ELSE <<current>> \o Walk(par, par[current], fuel - 1)

\* the path left in the order of the walk, end first
NotReversed(s) == s

\* path[::-1]
Reverse(s) == [i \in 1 .. Len(s) |-> s[Len(s) + 1 - i]]

\* PathFinder.reconstruct_path
ReconstructPath(par, current_node) ==
    Reverse(Walk(par, current_node, Cardinality(Cells) + 1))

\* Node.__init__: the search fields of newly made nodes
FreshNodes ==
    [g |-> [c \in Cells |-> Inf], h |-> [c \in Cells |-> 0],
     parent |-> [c \in Cells |-> NoNode]]

\* reset_nodes leaving the fields as they are
KeptNodes == [g |-> g_cost, h |-> h_cost, parent |-> parent]

\* Graph.reset_nodes: the search fields of every node after the reset
ResetNodes ==
    [g |-> [c \in Cells |-> Inf], h |-> [c \in Cells |-> 0],
     parent |-> [c \in Cells |-> NoNode]]

\* The local and node state of a search is a record st:
\*   g, h, parent : the fields of the nodes
\*   open, dict, closed : open_set, open_set_dict, closed_set
\*   pc, path, visited : "run" inside the loop; "done" with the returned pair

\* dijkstra, lines 192-198, on nodes with fields n: start.g_cost = 0, the heap
\* holds start
DijkstraBegin(n, s) ==
    [g |-> [n.g EXCEPT ![s] = 0], h |-> n.h, parent |-> n.parent,
     open |-> {Entry(0, s)}, dict |-> {s}, closed |-> {},
     pc |-> "run", path |-> << >>, visited |-> {}]

\* a_star without start.g_cost = 0
AStarBeginNoZero(n, s, e) ==
    [g |-> n.g, h |-> [n.h EXCEPT ![s] = Heuristic(s, e)],
     parent |-> n.parent,
     open |-> {Entry(FCost(n.g[s], Heuristic(s, e)), s)}, dict |-> {s}, closed |-> {},
     pc |-> "run", path |-> << >>, visited |-> {}]

\* a_star, lines 252-259: as dijkstra, and start.h_cost is the heuristic
AStarBegin(n, s, e) ==
    [g |-> [n.g EXCEPT ![s] = 0], h |-> [n.h EXCEPT ![s] = Heuristic(s, e)],
     parent |-> n.parent,
     open |-> {Entry(FCost(0, Heuristic(s, e)), s)}, dict |-> {s}, closed |-> {},
     pc |-> "run", path |-> << >>, visited |-> {}]

\* dijkstra, lines 189-198: graph.reset_nodes(), then the initialisation
DijkstraInit(s) == DijkstraBegin(ResetNodes, s)

\* a_star, lines 249-259
AStarInit(s, e) == AStarBegin(ResetNodes, s, e)

\* the end cell is closed before the return
FoundClosed(st, current) ==
    [st EXCEPT !.pc = "done", !.path = ReconstructPath(st.parent, current),
               !.visited = st.closed \cup {current}]

\* return cls.reconstruct_path(current), closed_set
Found(st, current) ==
    [st EXCEPT !.pc = "done", !.path = ReconstructPath(st.parent, current),
               !.visited = st.closed]

\* the loop going on with an empty heap in place of the return
NotFoundSpin(st) == st

\* return [], closed_set
NotFound(st) == [st EXCEPT !.pc = "done", !.path = << >>, !.visited = st.closed]

RECURSIVE DijkstraRelaxFirstParent(_, _, _, _)
\* the for loop of dijkstra with the parent set on the first visit only
DijkstraRelaxFirstParent(st, ns, i, current) ==
    IF i > Len(ns) THEN st
    ELSE LET neighbor == ns[i]
             tentative_g_cost == Add(st.g[current], GetTerrainCost(current, neighbor))
         IN  IF neighbor \in st.closed THEN DijkstraRelaxFirstParent(st, ns, i + 1, current)
             ELSE IF tentative_g_cost < st.g[neighbor]
             THEN LET push == MustPush(st.dict, neighbor)
                  IN  Bind(
                        [st EXCEPT !.parent[neighbor] = IF push THEN current ELSE @,
                                   !.g[neighbor] = tentative_g_cost,
                                   !.open = IF push
                                            THEN @ \cup {Entry(tentative_g_cost, neighbor)}
                                            ELSE @,
                                   !.dict = IF push THEN @ \cup {neighbor} ELSE @],
                        LAMBDA nst : DijkstraRelaxFirstParent(nst, ns, i + 1, current))
             ELSE DijkstraRelaxFirstParent(st, ns, i + 1, current)

RECURSIVE DijkstraRelax(_, _, _, _)
\* dijkstra, lines 215-230: the for loop over the neighbors ns, from position i on
DijkstraRelax(st, ns, i, current) ==
    IF i > Len(ns) THEN st
    ELSE LET neighbor == ns[i]
             tentative_g_cost == Add(st.g[current], GetTerrainCost(current, neighbor))
         IN  IF neighbor \in st.closed THEN DijkstraRelax(st, ns, i + 1, current)
             ELSE IF tentative_g_cost < st.g[neighbor]
             THEN LET push == MustPush(st.dict, neighbor)
                  IN  Bind(
                        [st EXCEPT !.parent[neighbor] = current,
                                   !.g[neighbor] = tentative_g_cost,
                                   !.open = IF push
                                            THEN @ \cup {Entry(tentative_g_cost, neighbor)}
                                            ELSE @,
                                   !.dict = IF push THEN @ \cup {neighbor} ELSE @],
                        LAMBDA nst : DijkstraRelax(nst, ns, i + 1, current))
             ELSE DijkstraRelax(st, ns, i + 1, current)

RECURSIVE AStarRelax(_, _, _, _, _)
\* a_star, lines 276-292: as in dijkstra, with h_cost set and f_cost as the key
AStarRelax(st, ns, i, current, e) ==
    IF i > Len(ns) THEN st
    ELSE LET neighbor == ns[i]
             tentative_g_cost == Add(st.g[current], GetTerrainCost(current, neighbor))
         IN  IF neighbor \in st.closed THEN AStarRelax(st, ns, i + 1, current, e)
             ELSE IF tentative_g_cost < st.g[neighbor]
             THEN LET push == MustPush(st.dict, neighbor)
                      h == Heuristic(neighbor, e)
                  IN  Bind(
                        [st EXCEPT !.parent[neighbor] = current,
                                   !.g[neighbor] = tentative_g_cost,
                                   !.h[neighbor] = h,
                                   !.open = IF push
                                            THEN @ \cup {Entry(FCost(tentative_g_cost, h),
                                                               neighbor)}
                                            ELSE @,
                                   !.dict = IF push THEN @ \cup {neighbor} ELSE @],
                        LAMBDA nst : AStarRelax(nst, ns, i + 1, current, e))
             ELSE AStarRelax(st, ns, i + 1, current, e)

\* the loop of dijkstra without closed_set.add(current)
DijkstraLoopNoClose(st, e, avoid) ==
    IF st.open = {} THEN NotFound(st)
    ELSE Bind(HeapMin(st.open), LAMBDA top :
         LET current == top.node
             popped == [st EXCEPT !.open = @ \ {top}]
         IN  IF current = e THEN Found(popped, current)
             ELSE IF current \in st.closed THEN popped
             ELSE Bind(GetNeighbors(current, avoid), LAMBDA ns :
                       DijkstraRelax(popped, ns, 1, current)))

\* dijkstra, lines 200-233: one test of `while open_set` and, when it holds, one
\* pass of the body; otherwise the return after the loop
DijkstraLoop(st, e, avoid) ==
    IF st.open = {} THEN NotFound(st)
    ELSE Bind(HeapMin(st.open), LAMBDA top :
         LET current == top.node
             popped == [st EXCEPT !.open = @ \ {top}]
         IN  IF current = e THEN Found(popped, current)
             ELSE IF current \in st.closed THEN popped
             ELSE Bind(GetNeighbors(current, avoid), LAMBDA ns :
                       DijkstraRelax([popped EXCEPT !.closed = @ \cup {current}],
                                     ns, 1, current)))

\* the loop of a_star without closed_set.add(current)
AStarLoopNoClose(st, e, avoid) ==
    IF st.open = {} THEN NotFound(st)
    ELSE Bind(HeapMin(st.open), LAMBDA top :
         LET current == top.node
             popped == [st EXCEPT !.open = @ \ {top}]
         IN  IF current = e THEN Found(popped, current)
             ELSE IF current \in st.closed THEN popped
             ELSE Bind(GetNeighbors(current, avoid), LAMBDA ns :
                       AStarRelax(popped, ns, 1, current, e)))

\* a_star, lines 261-295
AStarLoop(st, e, avoid) ==
    IF st.open = {} THEN NotFound(st)
    ELSE Bind(HeapMin(st.open), LAMBDA top :
         LET current == top.node
             popped == [st EXCEPT !.open = @ \ {top}]
         IN  IF current = e THEN Found(popped, current)
             ELSE IF current \in st.closed THEN popped
             ELSE Bind(GetNeighbors(current, avoid), LAMBDA ns :
                       AStarRelax([popped EXCEPT !.closed = @ \cup {current}],
                                  ns, 1, current, e)))

RECURSIVE DijkstraRun(_, _, _, _)
\* the while loop of dijkstra run to its return (fuel bounds the recursion)
DijkstraRun(st, e, avoid, fuel) ==
    IF st.pc = "done" \/ fuel = 0 THEN st
    ELSE DijkstraRun(DijkstraLoop(st, e, avoid), e, avoid, fuel - 1)

RECURSIVE AStarRun(_, _, _, _)
\* the while loop of a_star run to its return
AStarRun(st, e, avoid, fuel) ==
    IF st.pc = "done" \/ fuel = 0 THEN st
    ELSE AStarRun(AStarLoop(st, e, avoid), e, avoid, fuel - 1)

\* more passes than any run makes: every pass pops an entry, every cell is pushed once
Fuel == 2 * Cardinality(Cells) + 2

\* PathFinder.dijkstra(graph, s, e, avoid) as a function of the grid
Dijkstra(s, e, avoid) == DijkstraRun(DijkstraInit(s), e, avoid, Fuel)

\* PathFinder.a_star(graph, s, e, avoid) as a function of the grid
AStar(s, e, avoid) == AStarRun(AStarInit(s, e), e, avoid, Fuel)

\* --------------------------------------------------------------- actions
\* the search state held in the variables
Current ==
    [g |-> g_cost, h |-> h_cost, parent |-> parent,
     open |-> open_set, dict |-> open_set_dict, closed |-> closed_set,
     pc |-> pc, path |-> path, visited |-> visited]

Becomes(st) ==
    /\ g_cost' = st.g /\ h_cost' = st.h /\ parent' = st.parent
    /\ open_set' = st.open /\ open_set_dict' = st.dict /\ closed_set' = st.closed
    /\ pc' = st.pc /\ path' = st.path /\ visited' = st.visited

\* set_terrain putting a new Node in the cell: its search fields are lost
SetTerrainNewNode(x, y, name) ==
    /\ pc # "run"
    /\ calls' = calls + 1
    /\ IF InBounds(x, y)
       THEN /\ terrain_type' = [terrain_type EXCEPT ![<<x, y>>] = name]
            /\ walkable' = [walkable EXCEPT ![<<x, y>>] = IsWalkable(name)]
            /\ g_cost' = [g_cost EXCEPT ![<<x, y>>] = Inf]
            /\ h_cost' = [h_cost EXCEPT ![<<x, y>>] = 0]
            /\ parent' = [parent EXCEPT ![<<x, y>>] = NoNode]
       ELSE UNCHANGED <<nodeVars, g_cost, h_cost, parent>>
    /\ UNCHANGED <<open_set, open_set_dict, closed_set, pc, path, visited,
                   argVars, ids, runs>>

\* Graph.set_terrain(x, y, terrain_type), called outside a search
SetTerrain(x, y, name) ==
    /\ pc # "run"
    /\ calls' = calls + 1
    /\ IF InBounds(x, y)
       THEN /\ terrain_type' = [terrain_type EXCEPT ![<<x, y>>] = name]
            /\ walkable' = [walkable EXCEPT ![<<x, y>>] = IsWalkable(name)]
       ELSE UNCHANGED nodeVars
    /\ UNCHANGED <<stateVars, argVars, ids, runs>>

\* PathFinder.dijkstra is called and reaches its while loop
DijkstraStart(s, e, avoid) ==
    /\ pc # "run"
    /\ Becomes(DijkstraInit(s))
    /\ algo' = "dijkstra" /\ start' = s /\ end' = e /\ avoid_water' = avoid
    /\ runs' = runs + 1
    /\ UNCHANGED <<nodeVars, ids, calls>>

\* PathFinder.a_star is called and reaches its while loop
AStarStart(s, e, avoid) ==
    /\ pc # "run"
    /\ Becomes(AStarInit(s, e))
    /\ algo' = "a_star" /\ start' = s /\ end' = e /\ avoid_water' = avoid
    /\ runs' = runs + 1
    /\ UNCHANGED <<nodeVars, ids, calls>>

\* one pass of the while loop of dijkstra, or its end
DijkstraStep ==
    /\ pc = "run" /\ algo = "dijkstra"
    /\ \E st \in {DijkstraLoop(Current, end, avoid_water)} : Becomes(st)
    /\ UNCHANGED <<nodeVars, argVars, ids, calls, runs>>

\* one pass of the while loop of a_star, or its end
AStarStep ==
    /\ pc = "run" /\ algo = "a_star"
    /\ \E st \in {AStarLoop(Current, end, avoid_water)} : Becomes(st)
    /\ UNCHANGED <<nodeVars, argVars, ids, calls, runs>>

\* ------------------------------------------------------------ initial state
Index(c) == c[1] * Height + c[2]

\* addresses of the Node objects: some injective map, here rising or falling
\* with the order of construction
IdOrders ==
    { [c \in Cells |-> Index(c) + 1],
      [c \in Cells |-> Cardinality(Cells) - Index(c)] }

\* the map after Graph(Width, Height): every node 'normal'
FreshMap == [c \in Cells |-> "normal"]

\* a map with a wall of water across the row y = 1
WallMap == [c \in Cells |-> IF c[2] = 1 THEN "water" ELSE "normal"]

\* a map with a cheap diagonal into two mountains and a road behind them
RidgeMap ==
    [c \in Cells |->
        CASE c \in {<<0, 2>>, <<1, 2>>} -> "mountain"
          [] c \in {<<1, 1>>, <<0, 3>>} -> "road"
          [] OTHER -> "normal"]

\* maps built with set_terrain on a new Graph before the first search
BaseMaps == {FreshMap, WallMap, RidgeMap}

\* Graph(Width, Height) followed by the set_terrain calls that build a base map:
\* set_terrain keeps walkable in step with the name; the search fields are fresh
Init ==
    /\ terrain_type \in BaseMaps
    /\ walkable = [c \in Cells |-> IsWalkable(terrain_type[c])]
    /\ g_cost = FreshNodes.g
    /\ h_cost = FreshNodes.h
    /\ parent = FreshNodes.parent
    /\ ids \in IdOrders
    /\ pc = "idle"
    /\ algo = "dijkstra"
    /\ start = NoNode /\ end = NoNode /\ avoid_water = TRUE
    /\ open_set = {} /\ open_set_dict = {} /\ closed_set = {}
    /\ path = << >> /\ visited = {}
    /\ calls = 0
    /\ runs = 0

\* The map is completed with up to MaxSetTerrain calls, then one search runs.
Next ==
    \/ /\ pc = "idle" /\ calls < MaxSetTerrain
       /\ \E x \in -1 .. Width, y \in -1 .. Height, name \in TerrainNames :
             SetTerrain(x, y, name)
    \/ /\ runs = 0
       /\ \E s \in Cells, e \in Cells, avoid \in BOOLEAN : DijkstraStart(s, e, avoid)
    \/ /\ runs = 0
       /\ \E s \in Cells, e \in Cells, avoid \in BOOLEAN : AStarStart(s, e, avoid)
    \/ DijkstraStep
    \/ AStarStep

Spec == Init /\ [][Next]_vars

\* The map alone: set_terrain calls on a base map, one more than before a search.
NextMap ==
    /\ calls <= MaxSetTerrain
    /\ \E x \in -1 .. Width, y \in -1 .. Height, name \in TerrainNames :
          SetTerrain(x, y, name)

SpecMap == Init /\ [][NextMap]_vars

\* Searches follow one another on an unchanged map, up to MaxSearches of them.
NextAgain ==
    \/ /\ runs < MaxSearches
       /\ \E s \in Cells, e \in Cells, avoid \in BOOLEAN : DijkstraStart(s, e, avoid)
    \/ /\ runs < MaxSearches
       /\ \E s \in Cells, e \in Cells, avoid \in BOOLEAN : AStarStart(s, e, avoid)
    \/ DijkstraStep
    \/ AStarStep

SpecAgain == Init /\ [][NextAgain]_vars

\* One search on a base map. Python runs the body of a while loop again as long as
\* its test holds, with nothing to wait for: a pass that can be made is made.
NextOnce ==
    \/ /\ runs = 0
       /\ \E s \in Cells, e \in Cells, avoid \in BOOLEAN : DijkstraStart(s, e, avoid)
    \/ /\ runs = 0
       /\ \E s \in Cells, e \in Cells, avoid \in BOOLEAN : AStarStart(s, e, avoid)
    \/ DijkstraStep
    \/ AStarStep

SpecLive ==
    /\ Init /\ [][NextOnce]_vars
    /\ WF_vars(DijkstraStep) /\ WF_vars(AStarStep)

\* names given to set_terrain after a search: a catalog name that is walkable, one
\* that is not, an unknown name
NamesAfter == {"road", "water", "lava"}

\* One search on a base map, and set_terrain calls once it has returned: the nodes
\* then carry the costs and parents the search left on them.
NextAfter ==
    \/ /\ runs = 0
       /\ \E s \in Cells, e \in Cells, avoid \in BOOLEAN : DijkstraStart(s, e, avoid)
    \/ /\ runs = 0
       /\ \E s \in Cells, e \in Cells, avoid \in BOOLEAN : AStarStart(s, e, avoid)
    \/ DijkstraStep
    \/ AStarStep
    \/ /\ pc = "done" /\ calls < MaxSetTerrain
       /\ \E x \in -1 .. Width, y \in -1 .. Height, name \in NamesAfter :
             SetTerrain(x, y, name)

SpecAfter == Init /\ [][NextAfter]_vars

\* ================================================================ properties
\* Notions of the specification, stated on the grid and not taken from the code.

\* two cells a king's move apart
Adjacent(a, b) == a # b /\ Abs(a[1] - b[1]) <= 1 /\ Abs(a[2] - b[2]) <= 1

RECURSIVE Closure(_)
\* the cells reached from the set S by moves onto walkable cells
Closure(S) ==
    LET T == S \cup {c \in Cells : walkable[c] /\ \E a \in S : Adjacent(a, c)}
    IN  IF T = S THEN S ELSE Closure(T)

\* start and every cell reachable from it over walkable 8-neighbour moves
ReachableFrom(s) == Closure({s})

RECURSIVE SumCost(_, _)
\* sum of get_terrain_cost over the consecutive pairs of p from position i on
SumCost(p, i) ==
    IF i >= Len(p) THEN 0
    ELSE Add(EdgeCost(terrain_type, p[i], p[i + 1]), SumCost(p, i + 1))

\* total cost of a path
PathCost(p) == SumCost(p, 1)

Min(S) == CHOOSE m \in S : \A n \in S : m <= n

\* the table d after one more move: every cell keeps its cost or takes a cheaper
\* one through a neighbour (the table is built at once with @@, not on demand)
CheaperBy1(d) ==
    [c \in Cells |->
       Min({d[c]} \cup
           {Add(d[a], EdgeCost(terrain_type, a, c)) :
               a \in {b \in Cells : Adjacent(b, c) /\ walkable[c]}})] @@ << >>

RECURSIVE Cheapest(_, _)
\* d[c] after k rounds: the least cost of a walk of at most k moves from the
\* source to c over walkable cells
Cheapest(d, k) == IF k = 0 THEN d ELSE Cheapest(CheaperBy1(d), k - 1)

\* the least cost of any path from s to e over walkable cells (Inf when none)
MinCost(s, e) ==
    Cheapest([c \in Cells |-> IF c = s THEN 0 ELSE Inf] @@ << >>, Cardinality(Cells))[e]

\* the search that ran has returned
Returned(alg) == pc = "done" /\ algo = alg

\* start and end of the search are walkable and end can be reached from start
Connected == walkable[start] /\ walkable[end] /\ end \in ReachableFrom(start)

\* C1: the path dijkstra returns between connected walkable cells costs no more
\* than any other path from start to end (stated as: no more than the least cost).
C1_DijkstraOptimal ==
    (Returned("dijkstra") /\ Connected) => PathCost(path) <= MinCost(start, end)

\* C2: between connected walkable cells dijkstra returns a non-empty path that
\* begins at start and ends at end.
C2_DijkstraFindsPath ==
    (Returned("dijkstra") /\ Connected) =>
        /\ path # << >>
        /\ path[1] = start
        /\ path[Len(path)] = end

\* C2 witness: dijkstra returned a path of three or more cells between connected cells
C2_Witness ==
    /\ Returned("dijkstra") /\ Connected
    /\ Len(path) >= 3 /\ path[1] = start /\ path[Len(path)] = end

\* C3 as stated: when a search returns, end is in the returned closed set exactly
\* when the returned path is non-empty.
C3_EndClosedIffPath ==
    pc = "done" => ((end \in visited) <=> (path # << >>))

\* C3 as amended: end is never in the returned closed set, with or without a
\* path: the search returns on popping end, before it would close it.
C3_EndNeverClosed ==
    pc = "done" => end \notin visited

\* C3 witness: a search returned a path after closing other cells
C3_Witness ==
    /\ pc = "done" /\ path # << >> /\ path[Len(path)] = end
    /\ start # end /\ Cardinality(visited) >= 2 /\ end \notin visited

\* C4 as stated: every cell of the returned closed set is walkable, for any start
\* and end, walkable or not.
C4_ClosedAllWalkable ==
    pc = "done" => \A c \in visited : walkable[c]

\* C4 as amended: every cell of the returned closed set other than start is
\* walkable, and start is in it whenever it differs from end, walkable or not.
C4_ClosedWalkableButStart ==
    pc = "done" =>
        /\ \A c \in visited \ {start} : walkable[c]
        /\ start # end => start \in visited

\* C4 witness: a search from an unwalkable start next to walkable and unwalkable
\* cells returned with start and other cells closed
C4_Witness ==
    /\ pc = "done" /\ ~walkable[start] /\ start \in visited
    /\ Cardinality(visited) >= 2
    /\ \E c \in Cells \ visited : ~walkable[c] /\ \E a \in visited : Adjacent(a, c)

\* C5: when end differs from start and cannot be reached from it, the search
\* returns the empty path and the closed set is start with all it can reach.
C5_NoPathClosesAll ==
    (pc = "done" /\ start # end /\ end \notin ReachableFrom(start)) =>
        /\ path = << >>
        /\ visited = ReachableFrom(start)

\* C5 witness: a search towards a walkable cell behind a wall returned after
\* closing several cells
C5_Witness ==
    /\ pc = "done" /\ start # end /\ end \notin ReachableFrom(start)
    /\ walkable[end] /\ walkable[start]
    /\ path = << >> /\ Cardinality(visited) >= 2

\* C6: during and after a search every cell with a parent has the g_cost of its
\* parent plus the cost of the move from it, and the cost of a returned path is the
\* g_cost of end.
C6_CostIsGCost ==
    pc \in {"run", "done"} =>
        /\ \A c \in Cells :
              parent[c] # NoNode =>
                  g_cost[c] = Add(g_cost[parent[c]], GetTerrainCost(parent[c], c))
        /\ (pc = "done" /\ path # << >>) => PathCost(path) = g_cost[end]

\* C6 witness: a returned path of three or more cells on which some cell was given
\* a cheaper parent than its first one (it is not reached from start directly
\* although it is next to start)
C6_Witness ==
    /\ pc = "done" /\ Len(path) >= 3
    /\ \E c \in Cells : /\ Adjacent(start, c) /\ parent[c] \notin {start, NoNode}

\* the pair a search returns when it runs on nodes fresh from Node.__init__
FromFresh ==
    IF algo = "dijkstra"
    THEN DijkstraRun(DijkstraBegin(FreshNodes, start), end, avoid_water, Fuel)
    ELSE AStarRun(AStarBegin(FreshNodes, start, end), end, avoid_water, Fuel)

\* C7: on an unchanged map a search returns the path and closed set it returns on
\* a fresh grid, whatever searches ran before it.
C7_NoLeak ==
    pc = "done" => (path = FromFresh.path /\ visited = FromFresh.visited)

\* C7 witness: a second search, after another one left its costs and parents on
\* the nodes, returned a path of three or more cells
C7_Witness ==
    /\ pc = "done" /\ runs >= 2 /\ Len(path) >= 3
    /\ path = FromFresh.path /\ visited = FromFresh.visited

\* C8: between connected walkable cells the path dijkstra returns costs no more
\* than the path a_star returns for the same start, end and flag.
C8_DijkstraNoWorseThanAStar ==
    (Returned("a_star") /\ Connected) =>
        PathCost(Dijkstra(start, end, avoid_water).path) <= PathCost(path)

\* all the cells around c are named 'water'
Surrounded(c) == \A a \in Cells : Adjacent(a, c) => terrain_type[a] = "water"

\* C9: on every map the hazard group of get_neighbors is empty: no neighbor is
\* named 'water', the list is the same with and without avoid_water, and a cell
\* surrounded by water has no neighbors.
C9_NoWaterNeighbors ==
    \A c \in Cells :
        LET n == GetNeighbors(c, TRUE)
        IN  /\ Collect(terrain_type, walkable, c, TRUE) = << >>
            /\ n = GetNeighbors(c, FALSE)
            /\ \A i \in 1 .. Len(n) : terrain_type[n[i]] # "water"
            /\ Surrounded(c) => n = << >>

\* C9 witness: after a set_terrain call some cell is surrounded by water while
\* other cells still have neighbors
C9_Witness ==
    /\ calls >= 1
    /\ \E c \in Cells : Surrounded(c) /\ GetNeighbors(c, FALSE) = << >>
    /\ \E c \in Cells : GetNeighbors(c, TRUE) # << >>

\* the spellings of 'water' and the names unknown to the catalog among the names
\* given to set_terrain
WaterSpellings == {"water", "Water", "WATER"}
UnknownNames == {"lava"}

\* C10: the walkable flag of every cell is the catalog's answer for its name,
\* whatever the case of the letters, and a cell with an unknown name is walkable
\* and costs as much to enter as if it were 'normal'.
C10_WalkableMatchesCatalog ==
    \A c \in Cells :
        /\ walkable[c] = (terrain_type[c] \notin WaterSpellings)
        /\ terrain_type[c] \in UnknownNames =>
              /\ walkable[c]
              /\ \A a \in Cells :
                    Adjacent(a, c) =>
                        GetTerrainCost(a, c) =
                            EdgeCost([terrain_type EXCEPT ![c] = "normal"], a, c)

\* C10 witness: set_terrain gave a cell an unknown name, next to a cell that was
\* never assigned
C10_Witness ==
    /\ calls >= 1
    /\ \E c \in Cells :
          /\ terrain_type[c] \in UnknownNames /\ walkable[c]
          /\ \E a \in Cells : Adjacent(a, c) /\ terrain_type[a] = "normal"

\* what set_terrain(x, y, name) may change: nothing when (x, y) is out of range,
\* else the name and the walkable flag of cell (x, y) alone
SetTerrainFrame(x, y) ==
    /\ g_cost' = g_cost /\ h_cost' = h_cost /\ parent' = parent
    /\ ~InBounds(x, y) => (terrain_type' = terrain_type /\ walkable' = walkable)
    /\ \A c \in Cells \ {<<x, y>>} :
          terrain_type'[c] = terrain_type[c] /\ walkable'[c] = walkable[c]

C12_PathIsWalk ==
    (pc = "done" /\ path # << >>) =>
        /\ \A i \in 1 .. Len(path) - 1 : Adjacent(path[i], path[i + 1])
        /\ \A i, j \in 1 .. Len(path) : i # j => path[i] # path[j]
        /\ \A i \in 2 .. Len(path) :
              walkable[path[i]] /\ terrain_type[path[i]] \notin WaterSpellings

\* C12 witness: a returned path of four or more cells that goes round water: a
\* cell of the path touches a water cell that lies between start and end
C12_Witness ==
    /\ pc = "done" /\ Len(path) >= 4
    /\ path[1] = start /\ path[Len(path)] = end
    /\ \E c \in Cells :
          /\ terrain_type[c] = "water"
          /\ \E i \in 1 .. Len(path) : Adjacent(path[i], c)
          /\ (start[2] < c[2] /\ c[2] < end[2]) \/ (end[2] < c[2] /\ c[2] < start[2])

\* the keys under which node n is in the heap
KeysOf(n) == {a.key : a \in {b \in open_set : b.node = n}}

\* the key node n is pushed with: g_cost in dijkstra, f_cost in a_star
KeyNow(n) == IF algo = "dijkstra" THEN g_cost[n] ELSE FCost(g_cost[n], h_cost[n])

\* C13: during a search the least key of every cell that is in the heap and not
\* closed is its present g_cost (dijkstra) or f_cost (a_star): an improvement of
\* g_cost pushes a new entry under the improved key.
C13_FrontierKeysCurrent ==
    pc = "run" =>
        \A n \in Cells \ closed_set :
            KeysOf(n) # {} => Min(KeysOf(n)) = KeyNow(n)

\* the least cost from s to every cell over walkable cells
MinCosts(s) ==
    Cheapest([c \in Cells |-> IF c = s THEN 0 ELSE Inf] @@ << >>, Cardinality(Cells))

\* C14: a cell closed by dijkstra has the least cost of any path from start to it
\* over walkable cells as its g_cost when it is closed, and keeps it; so when
\* dijkstra returns from a walkable start, every cell of the closed set has that
\* least cost as its g_cost.
C14_ClosedIsOptimal ==
    (Returned("dijkstra") /\ walkable[start]) =>
        LET d == MinCosts(start)
        IN  \A c \in visited : g_cost[c] = d[c]

\* the cells met on the way from c along the parent links, c first
Ancestors(c) == Walk(parent, c, Cardinality(Cells) + 1)

\* C15: during and after a search the parent of start is none, every other cell
\* with a finite g_cost has a closed cell as its parent, and the parent links
\* from it lead to start without meeting a cell twice.
C15_ParentsLeadToStart ==
    pc \in {"run", "done"} =>
        /\ parent[start] = NoNode
        /\ \A c \in Cells \ {start} :
              g_cost[c] < Inf =>
                  /\ parent[c] \in closed_set
                  /\ LET a == Ancestors(c)
                     IN  /\ Len(a) <= Cardinality(Cells)
                         /\ a[Len(a)] = start
                         /\ \A i, j \in 1 .. Len(a) : i # j => a[i] # a[j]

\* C15 witness: in a running search a cell three links away from start is in the
\* heap, and some cell has been given a second parent
C15_Witness ==
    /\ pc = "run"
    /\ \E c \in Cells \ closed_set : Len(Ancestors(c)) >= 4
    /\ \E c \in Cells : Adjacent(start, c) /\ parent[c] \notin {start, NoNode}

\* C16: every search that runs returns. It returns a path on popping end, with
\* entries left in the heap or not, or the empty path when the heap is empty and
\* end was never pushed; the closed set it returns is the closed set as it was
\* then, without end, and no pass of the loop follows the return.
C16_Terminates ==
    /\ (pc = "run") ~> (pc = "done")
    /\ [](pc = "done" =>
            /\ visited = closed_set
            /\ path = << >> => (open_set = {} /\ end \notin open_set_dict)
            /\ path # << >> => (path[Len(path)] = end /\ end \notin closed_set)
            /\ ~ENABLED DijkstraStep /\ ~ENABLED AStarStep)

\* C16 witness: a search returned a path while cells it had reached were still in
\* the heap, after three or more passes of the loop
C16_Witness ==
    /\ pc = "done" /\ path # << >> /\ open_set # {}
    /\ Cardinality(visited) >= 3

\* C17: a_star returns a path exactly when dijkstra returns one for the same
\* start, end and flag, and a path it returns begins at start and ends at end.
C17_SameReachability ==
    Returned("a_star") =>
        /\ (path # << >>) <=> (Dijkstra(start, end, avoid_water).path # << >>)
        /\ path # << >> => (path[1] = start /\ path[Len(path)] = end)

\* C17 witness: a_star returned a path of three or more cells where dijkstra
\* returns another path
C17_Witness ==
    /\ Returned("a_star") /\ Len(path) >= 3
    /\ path[1] = start /\ path[Len(path)] = end
    /\ Dijkstra(start, end, avoid_water).path \notin {<< >>, path}

====
